---- MODULE Spec2Model ----
(***************************************************************************)
(* A model of the image -> FFT magnitude visualiser of src/main.cpp.       *)
(*                                                                         *)
(* Two state machines share the module:                                    *)
(*   SpecCenter  center_fft_image run cell by cell, twice in a row, on     *)
(*               buffers of every shape up to MaxDim x MaxDim;             *)
(*   Spec        the on_drop handler of main(): read the file, dispatch on *)
(*               the extension, png_to_luminance, mean-centering,          *)
(*               compute_fft_2d, normalisation, shift_fft_image,           *)
(*               center_fft_image and upload_luminance.                    *)
(*                                                                         *)
(* float values are modelled exactly, as reduced fractions n/d with the    *)
(* IEEE special values (NaN = 0/0, +Inf = 1/0, -Inf = -1/0); rounding is   *)
(* not modelled.                                                           *)
(***************************************************************************)
EXTENDS Integers, Naturals, Sequences, FiniteSets, TLC

VARIABLES
    \* ---- center_fft_image on its own (SpecCenter)
    cpc,        \* "run" | "done" | "fault" | "off"
    cw, ch,     \* in.size.x, in.size.y
    orig,       \* the buffer given to the first call
    src,        \* `in` of the running call   (flat index -> value)
    dst,        \* `out` of the running call  (cells written so far)
    ci, cj,     \* loop counters i, j
    cpass,      \* 1: first call, 2: second call on the first call's output
    srcmap,     \* history: out flat index -> <<row, col>> read from `in`
    \* ---- the on_drop handler (Spec)
    pc,         \* position in on_drop
    numFiles, f,\* arguments and loop counter of on_drop
    file,       \* what paths[f] names
    dataOK,     \* `data` holds the bytes of the file
    dec,        \* what stbi_load_from_memory gave: width, height, nBytes, data
    img,        \* image_buffer<float,1> img (flat index -> float)
    lum,        \* history: img as png_to_luminance returned it
    cplx,       \* imgAsComplexArray
    fy, fx,     \* loop counters of compute_fft_2d
    rowsDone,   \* history: rows whose transform was written back
    colsDone,   \* history: columns whose transform was written back
    colReadRaw, \* history: a column gather read a cell of an untransformed row
    gmin, gmax, \* min, max of the normalisation
    divZero,    \* history: the normalisation divided by zero
    texture,    \* loadedTexture and what was uploaded to it
    log         \* history: the events of the running on_drop iteration

cvars == <<cpc, cw, ch, orig, src, dst, ci, cj, cpass, srcmap>>
pvars == <<pc, numFiles, f, file, dataOK, dec, img, lum, cplx, fy, fx,
           rowsDone, colsDone, colReadRaw, gmin, gmax, divZero, texture, log>>
vars == <<cvars, pvars>>

(***************************************************************************)
(* Bounds                                                                  *)
(***************************************************************************)
MaxDim == 4
MaxFiles == 2

(***************************************************************************)
(* float arithmetic                                                        *)
(***************************************************************************)
Abs(x) == IF x < 0 THEN -x ELSE x
Sgn(x) == IF x < 0 THEN -1 ELSE IF x > 0 THEN 1 ELSE 0

RECURSIVE GCD(_, _)
GCD(a, b) == IF b = 0 THEN a ELSE GCD(b, a % b)

\* the float n/d, reduced; d = 0 gives NaN (n = 0) or +-Inf
Q(n, d) ==
    IF d = 0 THEN [n |-> Sgn(n), d |-> 0]
    ELSE LET g == GCD(Abs(n), Abs(d))
             s == Sgn(d)
         IN  [n |-> (s * n) \div g, d |-> (s * d) \div g]

F(k) == [n |-> k, d |-> 1]
NaN == [n |-> 0, d |-> 0]
IsNaN(a) == a.d = 0 /\ a.n = 0

FNeg(a) == [n |-> -a.n, d |-> a.d]

FAdd(a, b) ==
    IF a.d = 0 /\ b.d = 0 THEN (IF a.n = b.n THEN a ELSE NaN)
    ELSE IF a.d = 0 THEN a
    ELSE IF b.d = 0 THEN b
    ELSE LET g == GCD(a.d, b.d)
         IN  Q(a.n * (b.d \div g) + b.n * (a.d \div g), a.d * (b.d \div g))

FSub(a, b) == FAdd(a, FNeg(b))

FMul(a, b) ==
    IF a.d = 0 \/ b.d = 0 THEN Q(a.n * b.n, 0)
    ELSE LET g1 == GCD(Abs(a.n), b.d)
             g2 == GCD(Abs(b.n), a.d)
         IN  Q((a.n \div g1) * (b.n \div g2), (a.d \div g2) * (b.d \div g1))

FInv(b) == Q(b.d, b.n)
FDiv(a, b) == FMul(a, FInv(b))

\* a < b; false when either is NaN
FLt(a, b) ==
    IF IsNaN(a) \/ IsNaN(b) THEN FALSE
    ELSE IF a.d = 0 /\ b.d = 0 THEN a.n < b.n
    ELSE IF a.d = 0 THEN a.n < 0
    ELSE IF b.d = 0 THEN b.n > 0
    ELSE LET g == GCD(a.d, b.d)
         IN  a.n * (b.d \div g) < b.n * (a.d \div g)

FLe(a, b) == ~IsNaN(a) /\ ~IsNaN(b) /\ ~FLt(b, a)

\* std::min(a, b) and std::max(a, b)
FMin(a, b) == IF FLt(b, a) THEN b ELSE a
FMax(a, b) == IF FLt(a, b) THEN b ELSE a

(***************************************************************************)
(* image_buffer: row-major storage, alias[y * size.x + x]                  *)
(***************************************************************************)
Flat(y, x, width) == y * width + x
Cells(width, height) == 0 .. (width * height - 1)
InStorage(k, width, height) == k \in Cells(width, height)

(***************************************************************************)
(* center_fft_image                                                        *)
(***************************************************************************)
\* center_fft_image with the last branch reading the column left in place
CenterSrcNoColShift(i, j, width, height) ==
    LET halfWidth == width \div 2
        halfHeight == height \div 2
    IN  IF i < halfHeight
        THEN IF j < halfWidth THEN <<i + halfHeight, j + halfWidth>>
             ELSE <<i + halfWidth, j - halfWidth>>
        ELSE IF j < halfWidth THEN <<i - halfHeight, j + halfWidth>>
             ELSE <<i - halfHeight, j>>

\* the <<row, col>> of `in` that out(i, j) is copied from
CenterSrc(i, j, width, height) ==
    LET halfWidth == width \div 2
        halfHeight == height \div 2
    IN  IF i < halfHeight
        THEN IF j < halfWidth THEN <<i + halfHeight, j + halfWidth>>
             ELSE <<i + halfWidth, j - halfWidth>>
        ELSE IF j < halfWidth THEN <<i - halfHeight, j + halfWidth>>
             ELSE <<i - halfHeight, j - halfWidth>>

\* the flat index in(row, col) reads
CenterRead(i, j, width, height) ==
    LET rc == CenterSrc(i, j, width, height)
    IN  Flat(rc[1], rc[2], width)

\* what a read outside the storage can yield
Garbage == {-1, 0}

\* labelled input: every cell holds its own flat index
Labelled(width, height) == [k \in Cells(width, height) |-> k]

EmptyBuf == [k \in {} |-> 0]

InitCenterVars ==
    /\ cpc = "run"
    /\ cw \in 1 .. MaxDim
    /\ ch \in 1 .. MaxDim
    /\ orig = Labelled(cw, ch)
    /\ src = orig
    /\ dst = EmptyBuf
    /\ ci = 0
    /\ cj = 0
    /\ cpass = 1
    /\ srcmap = EmptyBuf

CenterOff ==
    /\ cpc = "off"
    /\ cw = 1
    /\ ch = 1
    /\ orig = EmptyBuf
    /\ src = EmptyBuf
    /\ dst = EmptyBuf
    /\ ci = 0
    /\ cj = 0
    /\ cpass = 1
    /\ srcmap = EmptyBuf

\* j++ of the inner loop, i++ of the outer one when the inner loop ends
CenterAdvance ==
    IF cj + 1 < cw
    THEN /\ cj' = cj + 1
         /\ ci' = ci
    ELSE /\ cj' = 0
         /\ ci' = ci + 1

\* one iteration of the loop body, the read inside the storage
CenterCell ==
    /\ cpc = "run"
    /\ ci < ch
    /\ InStorage(CenterRead(ci, cj, cw, ch), cw, ch)
    /\ dst' = dst @@ (Flat(ci, cj, cw) :> src[CenterRead(ci, cj, cw, ch)])
    /\ srcmap' = srcmap @@ (Flat(ci, cj, cw) :> CenterSrc(ci, cj, cw, ch))
    /\ CenterAdvance
    /\ UNCHANGED <<cpc, cw, ch, orig, src, cpass>>
    /\ UNCHANGED pvars

\* one iteration of the loop body, the read outside the storage: the cell
\* gets whatever lies there
CenterCellOutside ==
    /\ cpc = "run"
    /\ ci < ch
    /\ ~InStorage(CenterRead(ci, cj, cw, ch), cw, ch)
    /\ \E g \in Garbage : dst' = dst @@ (Flat(ci, cj, cw) :> g)
    /\ srcmap' = srcmap @@ (Flat(ci, cj, cw) :> CenterSrc(ci, cj, cw, ch))
    /\ CenterAdvance
    /\ UNCHANGED <<cpc, cw, ch, orig, src, cpass>>
    /\ UNCHANGED pvars

\* the read outside the storage faults
CenterCellFault ==
    /\ cpc = "run"
    /\ ci < ch
    /\ ~InStorage(CenterRead(ci, cj, cw, ch), cw, ch)
    /\ cpc' = "fault"
    /\ srcmap' = srcmap @@ (Flat(ci, cj, cw) :> CenterSrc(ci, cj, cw, ch))
    /\ UNCHANGED <<cw, ch, orig, src, dst, ci, cj, cpass>>
    /\ UNCHANGED pvars

\* the first call returned: call again with its output as the input
CenterAgain ==
    /\ cpc = "run"
    /\ ci = ch
    /\ cpass = 1
    /\ cpass' = 2
    /\ src' = dst
    /\ dst' = EmptyBuf
    /\ srcmap' = EmptyBuf
    /\ ci' = 0
    /\ cj' = 0
    /\ UNCHANGED <<cpc, cw, ch, orig>>
    /\ UNCHANGED pvars

\* the second call returned
CenterDone ==
    /\ cpc = "run"
    /\ ci = ch
    /\ cpass = 2
    /\ cpc' = "done"
    /\ UNCHANGED <<cw, ch, orig, src, dst, ci, cj, cpass, srcmap>>
    /\ UNCHANGED pvars


(***************************************************************************)
(* What a dropped file can be                                              *)
(***************************************************************************)
ByteMax == 255
ShiftScale == 255

Black == <<0, 0, 0>>
White == <<ByteMax, ByteMax, ByteMax>>
Red == <<ByteMax, 0, 0>>
Grey == <<128, 128, 128>>
Palette == {Black, White, Red}

\* the channel counts a decoded buffer is given with
ChannelCounts == {1, 3, 4, 5}

\* the nBytes samples of one pixel of colour rgb (alpha and beyond: opaque)
PixelBytes(rgb, nBytes) == SubSeq(rgb \o <<ByteMax, ByteMax>>, 1, nBytes)

RECURSIVE Interleave(_, _, _, _)
Interleave(pix, nBytes, k, n) ==
    IF k = n THEN <<>>
    ELSE PixelBytes(pix[k], nBytes) \o Interleave(pix, nBytes, k + 1, n)

\* the row-major, channel-interleaved buffer stbi_load_from_memory returns
Decoded(width, height, nBytes, pix) ==
    [width |-> width, height |-> height, nBytes |-> nBytes,
     data |-> Interleave(pix, nBytes, 0, width * height)]

\* transform lengths whose roots of unity are exact: 1, -i, -1, i
SmallDims == {1, 2}

Images ==
    UNION { { Decoded(w, h, c, pix) : pix \in [Cells(w, h) -> Palette] } :
            <<w, h, c>> \in SmallDims \X SmallDims \X ChannelCounts }
    \cup { Decoded(4, 4, c, [k \in Cells(4, 4) |-> Grey]) : c \in {3, 4} }

NoImage == [width |-> 0, height |-> 0, nBytes |-> 0, data |-> <<>>]

\* what an undecodable buffer leaves in the uninitialised width, height,
\* nBytes and behind the null data pointer, when the run goes on
GarbageImages == { Decoded(1, 1, 3, [k \in Cells(1, 1) |-> c]) : c \in {Black, White} }

Files ==
    { [ext |-> "png", readable |-> TRUE, valid |-> TRUE, image |-> im] : im \in Images }
    \cup { [ext |-> e, readable |-> r, valid |-> FALSE, image |-> NoImage] :
           e \in {"png", "dds", "txt"}, r \in BOOLEAN }

NoFile == [ext |-> "", readable |-> FALSE, valid |-> FALSE, image |-> NoImage]

NoTexture == [kind |-> "none", size |-> <<0, 0>>, px |-> EmptyBuf]

(***************************************************************************)
(* png_to_luminance                                                        *)
(***************************************************************************)
\* as_float<uint8_t>: (x - min) / (max - min)
AsFloat(x) == FDiv(FSub(F(x), F(0)), FSub(F(ByteMax), F(0)))

\* to_luminance
ToLuminance(r, g, b) ==
    FAdd(FAdd(FMul(Q(2126, 10000), r), FMul(Q(7152, 10000), g)),
         FMul(Q(722, 10000), b))

\* the indices of data[] the loop reads
PixelReads(d) ==
    { d.nBytes * p + c : p \in Cells(d.width, d.height), c \in 0 .. 2 }

\* those past the end of the decoded buffer
OutsideReads(d) == { k \in PixelReads(d) : k >= Len(d.data) }

\* data[k]; g holds what lies past the end
DataAt(d, k, g) == IF k < Len(d.data) THEN d.data[k + 1] ELSE g[k]

GarbageBytes == {0, ByteMax}

LuminanceOf(d, g) ==
    [p \in Cells(d.width, d.height) |->
        ToLuminance(AsFloat(DataAt(d, d.nBytes * p + 0, g)),
                    AsFloat(DataAt(d, d.nBytes * p + 1, g)),
                    AsFloat(DataAt(d, d.nBytes * p + 2, g)))]

(***************************************************************************)
(* image_buffer::compute_mean and the mean-centring loop of on_drop        *)
(***************************************************************************)
RECURSIVE SumFrom(_, _, _)
SumFrom(buf, k, n) == IF k = n THEN F(0) ELSE FAdd(buf[k], SumFrom(buf, k + 1, n))

\* compute_mean with the division left out
ComputeMeanZero(buf, width, height) == F(0)

ComputeMean(buf, width, height) ==
    FDiv(SumFrom(buf, 0, width * height), F(width * height))

Cx(re, im) == [re |-> re, im |-> im]

MeanCentered(buf, width, height) ==
    LET mean == ComputeMean(buf, width, height)
    IN  [k \in Cells(width, height) |-> Cx(FSub(buf[k], mean), F(0))]

(***************************************************************************)
(* kissfft<float>::transform, forward, unscaled                            *)
(***************************************************************************)
CAdd(a, b) == Cx(FAdd(a.re, b.re), FAdd(a.im, b.im))

\* z * (-i)^q
CRot(z, q) ==
    IF q = 0 THEN z
    ELSE IF q = 1 THEN Cx(z.im, FNeg(z.re))
    ELSE IF q = 2 THEN Cx(FNeg(z.re), FNeg(z.im))
    ELSE Cx(FNeg(z.im), z.re)

\* z * exp(-2 pi i e / n), for n dividing 4
Twiddle(z, e, n) == CRot(z, (e * (4 \div n)) % 4)

RECURSIVE DFTSum(_, _, _, _)
DFTSum(x, k, m, n) ==
    IF m = n THEN Cx(F(0), F(0))
    ELSE CAdd(Twiddle(x[m], k * m, n), DFTSum(x, k, m + 1, n))

\* x and the result are functions on 0 .. n-1
DFT1D(x, n) == [k \in 0 .. (n - 1) |-> DFTSum(x, k, 0, n)]

(***************************************************************************)
(* compute_fft_2d                                                          *)
(***************************************************************************)
\* the row loop with its last iteration left out
RowLoopCondShort(y, height) == y < height - 1

\* y < height of the row loop
RowLoopCond(y, height) == y < height

\* x < width of the column loop
ColLoopCond(x, width) == x < width

\* data with row y replaced by its transform
TransformRow(data, y, width) ==
    LET xTmp == DFT1D([x \in 0 .. (width - 1) |-> data[Flat(y, x, width)]], width)
    IN  [k \in DOMAIN data |->
            IF k \div width = y THEN xTmp[k % width] ELSE data[k]]

\* data with column x replaced by its transform
TransformCol(data, x, width, height) ==
    LET ySrc == [y \in 0 .. (height - 1) |-> data[Flat(y, x, width)]]
        yTmp == DFT1D(ySrc, height)
    IN  [k \in DOMAIN data |->
            IF k % width = x THEN yTmp[k \div width] ELSE data[k]]

(***************************************************************************)
(* normalisation in on_drop                                                *)
(***************************************************************************)
FAbs(a) == [n |-> Abs(a.n), d |-> a.d]

RECURSIVE ISqrtFrom(_, _)
ISqrtFrom(n, k) == IF k * k >= n THEN k ELSE ISqrtFrom(n, k + 1)

\* sqrt of a fraction of perfect squares
FSqrt(a) == IF a.d = 0 THEN a ELSE Q(ISqrtFrom(a.n, 0), ISqrtFrom(a.d, 0))

\* std::abs(v) and sqrt(re^2 + im^2); |re| or |im| when the other part is 0
Magnitude(v) ==
    IF v.im = F(0) THEN FAbs(v.re)
    ELSE IF v.re = F(0) THEN FAbs(v.im)
    ELSE FSqrt(FAdd(FMul(v.re, v.re), FMul(v.im, v.im)))

RECURSIVE MinMagFrom(_, _, _, _)
MinMagFrom(data, k, n, acc) ==
    IF k = n THEN acc
    ELSE MinMagFrom(data, k + 1, n, FMin(acc, Magnitude(data[k])))

RECURSIVE MaxMagFrom(_, _, _, _)
MaxMagFrom(data, k, n, acc) ==
    IF k = n THEN acc
    ELSE MaxMagFrom(data, k + 1, n, FMax(acc, Magnitude(data[k])))

\* img(y, x) = (|v| - min) / (max - min)
Normalized(data, lo, hi) ==
    [k \in DOMAIN data |-> FDiv(FSub(Magnitude(data[k]), lo), FSub(hi, lo))]

(***************************************************************************)
(* shift_fft_image                                                         *)
(***************************************************************************)
RECURSIVE LowestFrom(_, _, _, _)
LowestFrom(data, k, n, acc) ==
    IF k = n THEN acc
    ELSE LowestFrom(data, k + 1, n, IF FLt(data[k], acc) THEN data[k] ELSE acc)

RECURSIVE HighestFrom(_, _, _, _)
HighestFrom(data, k, n, acc) ==
    IF k = n THEN acc
    ELSE HighestFrom(data, k + 1, n, IF FLt(acc, data[k]) THEN data[k] ELSE acc)

ShiftFFTImage(data, n) ==
    LET lo == LowestFrom(data, 0, n, data[0])
        lowered == [k \in DOMAIN data |-> FSub(data[k], lo)]
        hi == HighestFrom(lowered, 0, n, data[0])
    IN  [k \in DOMAIN data |-> FMul(lowered[k], FDiv(F(ShiftScale), hi))]


(***************************************************************************)
(* center_fft_image as one call, for on_drop                               *)
(***************************************************************************)
\* the cells of `out` whose read falls outside the storage of `in`
OutsideCells(width, height) ==
    { k \in Cells(width, height) :
        ~InStorage(CenterRead(k \div width, k % width, width, height), width, height) }

\* `out` after the call; g holds what the reads outside the storage yield
Centered(data, width, height, g) ==
    [k \in Cells(width, height) |->
        IF k \in OutsideCells(width, height) THEN g[k]
        ELSE data[CenterRead(k \div width, k % width, width, height)]]

GarbageFloats == {F(0), NaN}

(***************************************************************************)
(* on_drop                                                                 *)
(***************************************************************************)
Failures == {"read_failed", "decode_failed"}
LaterStages == {"luminance", "mean", "fft", "normalize", "shift", "center", "upload"}

InitDropVars ==
    /\ pc = "idle"
    /\ numFiles = 0
    /\ f = 0
    /\ file = NoFile
    /\ dataOK = FALSE
    /\ dec = NoImage
    /\ img = EmptyBuf
    /\ lum = EmptyBuf
    /\ cplx = EmptyBuf
    /\ fy = 0
    /\ fx = 0
    /\ rowsDone = {}
    /\ colsDone = {}
    /\ colReadRaw = FALSE
    /\ gmin = F(0)
    /\ gmax = F(0)
    /\ divZero = FALSE
    /\ texture = NoTexture
    /\ log = <<>>

\* the locals of one loop iteration, as they are before the iteration runs
LocalsFresh ==
    /\ file' = NoFile
    /\ dataOK' = FALSE
    /\ dec' = NoImage
    /\ img' = EmptyBuf
    /\ lum' = EmptyBuf
    /\ cplx' = EmptyBuf
    /\ fy' = 0
    /\ fx' = 0
    /\ rowsDone' = {}
    /\ colsDone' = {}
    /\ colReadRaw' = FALSE
    /\ gmin' = F(0)
    /\ gmax' = F(0)
    /\ divZero' = FALSE
    /\ log' = <<>>

\* GLFW calls on_drop(numFiles, paths)
OnDrop ==
    /\ pc = "idle"
    /\ \E n \in 1 .. MaxFiles : numFiles' = n
    /\ f' = 0
    /\ pc' = "loop"
    /\ UNCHANGED <<file, dataOK, dec, img, lum, cplx, fy, fx, rowsDone, colsDone,
                   colReadRaw, gmin, gmax, divZero, texture, log>>
    /\ UNCHANGED cvars

\* f < numFiles: the iteration starts with a fresh texture_buffer
BeginFile ==
    /\ pc = "loop"
    /\ f < numFiles
    /\ \E p \in Files : file' = p
    /\ texture' = NoTexture
    /\ pc' = "read"
    /\ UNCHANGED <<numFiles, f, dataOK, dec, img, lum, cplx, fy, fx, rowsDone,
                   colsDone, colReadRaw, gmin, gmax, divZero, log>>
    /\ UNCHANGED cvars

\* f == numFiles: on_drop returns
EndDrop ==
    /\ pc = "loop"
    /\ f >= numFiles
    /\ pc' = "idle"
    /\ UNCHANGED <<numFiles, f, file, dataOK, dec, img, lum, cplx, fy, fx, rowsDone,
                   colsDone, colReadRaw, gmin, gmax, divZero, texture, log>>
    /\ UNCHANGED cvars

\* read_file_binary returns the bytes
ReadFile ==
    /\ pc = "read"
    /\ file.readable
    /\ dataOK' = TRUE
    /\ log' = Append(log, "read")
    /\ pc' = "dispatch"
    /\ UNCHANGED <<numFiles, f, file, dec, img, lum, cplx, fy, fx, rowsDone,
                   colsDone, colReadRaw, gmin, gmax, divZero, texture>>
    /\ UNCHANGED cvars

\* read_file_binary throws; the handler prints and falls through
ReadFileFails ==
    /\ pc = "read"
    /\ ~file.readable
    /\ dataOK' = FALSE
    /\ log' = Append(log, "read_failed")
    /\ pc' = "dispatch"
    /\ UNCHANGED <<numFiles, f, file, dec, img, lum, cplx, fy, fx, rowsDone,
                   colsDone, colReadRaw, gmin, gmax, divZero, texture>>
    /\ UNCHANGED cvars

\* ext == "png": png_to_luminance is called
DispatchPng ==
    /\ pc = "dispatch"
    /\ file.ext = "png"
    /\ log' = Append(log, "luminance")
    /\ pc' = "decode"
    /\ UNCHANGED <<numFiles, f, file, dataOK, dec, img, lum, cplx, fy, fx, rowsDone,
                   colsDone, colReadRaw, gmin, gmax, divZero, texture>>
    /\ UNCHANGED cvars

\* ext == "dds": gli::load_dds and upload_dds
DispatchDds ==
    /\ pc = "dispatch"
    /\ file.ext = "dds"
    /\ log' = Append(log, "dds")
    /\ texture' = IF dataOK THEN [kind |-> "dds", size |-> <<0, 0>>, px |-> EmptyBuf]
                  ELSE texture
    /\ pc' = "end_iter"
    /\ UNCHANGED <<numFiles, f, file, dataOK, dec, img, lum, cplx, fy, fx, rowsDone,
                   colsDone, colReadRaw, gmin, gmax, divZero>>
    /\ UNCHANGED cvars

\* any other extension
DispatchOther ==
    /\ pc = "dispatch"
    /\ file.ext \notin {"png", "dds"}
    /\ log' = Append(log, "unsupported")
    /\ pc' = "end_iter"
    /\ UNCHANGED <<numFiles, f, file, dataOK, dec, img, lum, cplx, fy, fx, rowsDone,
                   colsDone, colReadRaw, gmin, gmax, divZero, texture>>
    /\ UNCHANGED cvars

\* stbi_load_from_memory decodes the bytes
PngDecode ==
    /\ pc = "decode"
    /\ dataOK /\ file.valid
    /\ dec' = file.image
    /\ pc' = "luminance"
    /\ UNCHANGED <<numFiles, f, file, dataOK, img, lum, cplx, fy, fx, rowsDone,
                   colsDone, colReadRaw, gmin, gmax, divZero, texture, log>>
    /\ UNCHANGED cvars

\* stbi_load_from_memory returns null and leaves width, height and nBytes
\* unset; nothing tests for it, and the run goes on with what they hold
PngDecodeFails ==
    /\ pc = "decode"
    /\ ~(dataOK /\ file.valid)
    /\ \E d \in GarbageImages : dec' = d
    /\ log' = Append(log, "decode_failed")
    /\ pc' = "luminance"
    /\ UNCHANGED <<numFiles, f, file, dataOK, img, lum, cplx, fy, fx, rowsDone,
                   colsDone, colReadRaw, gmin, gmax, divZero, texture>>
    /\ UNCHANGED cvars

\* ... or the process dies on the null buffer
PngDecodeFaults ==
    /\ pc = "decode"
    /\ ~(dataOK /\ file.valid)
    /\ log' = Append(log, "decode_failed")
    /\ pc' = "fault"
    /\ UNCHANGED <<numFiles, f, file, dataOK, dec, img, lum, cplx, fy, fx, rowsDone,
                   colsDone, colReadRaw, gmin, gmax, divZero, texture>>
    /\ UNCHANGED cvars

\* the pixel loop of png_to_luminance
PngLuminance ==
    /\ pc = "luminance"
    /\ \E g \in [OutsideReads(dec) -> GarbageBytes] : img' = LuminanceOf(dec, g)
    /\ lum' = img'
    /\ pc' = "mean"
    /\ UNCHANGED <<numFiles, f, file, dataOK, dec, cplx, fy, fx, rowsDone,
                   colsDone, colReadRaw, gmin, gmax, divZero, texture, log>>
    /\ UNCHANGED cvars

\* a read past the end of the decoded buffer faults
PngLuminanceFaults ==
    /\ pc = "luminance"
    /\ OutsideReads(dec) # {}
    /\ pc' = "fault"
    /\ UNCHANGED <<numFiles, f, file, dataOK, dec, img, lum, cplx, fy, fx, rowsDone,
                   colsDone, colReadRaw, gmin, gmax, divZero, texture, log>>
    /\ UNCHANGED cvars

\* compute_mean and the loop filling imgAsComplexArray
MeanCenter ==
    /\ pc = "mean"
    /\ cplx' = MeanCentered(img, dec.width, dec.height)
    /\ log' = Append(log, "mean")
    /\ pc' = "fft_enter"
    /\ UNCHANGED <<numFiles, f, file, dataOK, dec, img, lum, fy, fx, rowsDone,
                   colsDone, colReadRaw, gmin, gmax, divZero, texture>>
    /\ UNCHANGED cvars

\* compute_fft_2d is called
FFTEnter ==
    /\ pc = "fft_enter"
    /\ fy' = 0
    /\ log' = Append(log, "fft")
    /\ pc' = "fft_rows"
    /\ UNCHANGED <<numFiles, f, file, dataOK, dec, img, lum, cplx, fx, rowsDone,
                   colsDone, colReadRaw, gmin, gmax, divZero, texture>>
    /\ UNCHANGED cvars

\* one iteration of the row loop
FFTRow ==
    /\ pc = "fft_rows"
    /\ RowLoopCond(fy, dec.height)
    /\ cplx' = TransformRow(cplx, fy, dec.width)
    /\ rowsDone' = rowsDone \cup {fy}
    /\ fy' = fy + 1
    /\ UNCHANGED <<pc, numFiles, f, file, dataOK, dec, img, lum, fx, colsDone,
                   colReadRaw, gmin, gmax, divZero, texture, log>>
    /\ UNCHANGED cvars

\* the row loop ends, the column loop starts
FFTRowsEnd ==
    /\ pc = "fft_rows"
    /\ ~RowLoopCond(fy, dec.height)
    /\ fx' = 0
    /\ pc' = "fft_cols"
    /\ UNCHANGED <<numFiles, f, file, dataOK, dec, img, lum, cplx, fy, rowsDone,
                   colsDone, colReadRaw, gmin, gmax, divZero, texture, log>>
    /\ UNCHANGED cvars

\* one iteration of the column loop
FFTCol ==
    /\ pc = "fft_cols"
    /\ ColLoopCond(fx, dec.width)
    /\ colReadRaw' = (colReadRaw \/ rowsDone # 0 .. (dec.height - 1))
    /\ cplx' = TransformCol(cplx, fx, dec.width, dec.height)
    /\ colsDone' = colsDone \cup {fx}
    /\ fx' = fx + 1
    /\ UNCHANGED <<pc, numFiles, f, file, dataOK, dec, img, lum, fy, rowsDone,
                   gmin, gmax, divZero, texture, log>>
    /\ UNCHANGED cvars

\* the column loop ends, compute_fft_2d returns
FFTColsEnd ==
    /\ pc = "fft_cols"
    /\ ~ColLoopCond(fx, dec.width)
    /\ pc' = "minmax"
    /\ UNCHANGED <<numFiles, f, file, dataOK, dec, img, lum, cplx, fy, fx, rowsDone,
                   colsDone, colReadRaw, gmin, gmax, divZero, texture, log>>
    /\ UNCHANGED cvars

\* the min/max loop
MinMax ==
    /\ pc = "minmax"
    /\ gmin' = MinMagFrom(cplx, 0, dec.width * dec.height, Magnitude(cplx[0]))
    /\ gmax' = MaxMagFrom(cplx, 0, dec.width * dec.height, Magnitude(cplx[0]))
    /\ log' = Append(log, "normalize")
    /\ pc' = "convert"
    /\ UNCHANGED <<numFiles, f, file, dataOK, dec, img, lum, cplx, fy, fx, rowsDone,
                   colsDone, colReadRaw, divZero, texture>>
    /\ UNCHANGED cvars

\* the loop converting back to the image type
Convert ==
    /\ pc = "convert"
    /\ img' = Normalized(cplx, gmin, gmax)
    /\ divZero' = (FSub(gmax, gmin) = F(0))
    /\ pc' = "shift"
    /\ UNCHANGED <<numFiles, f, file, dataOK, dec, lum, cplx, fy, fx, rowsDone,
                   colsDone, colReadRaw, gmin, gmax, texture, log>>
    /\ UNCHANGED cvars

\* shift_fft_image(img)
Shift ==
    /\ pc = "shift"
    /\ img' = ShiftFFTImage(img, dec.width * dec.height)
    /\ log' = Append(log, "shift")
    /\ pc' = "center"
    /\ UNCHANGED <<numFiles, f, file, dataOK, dec, lum, cplx, fy, fx, rowsDone,
                   colsDone, colReadRaw, gmin, gmax, divZero, texture>>
    /\ UNCHANGED cvars

\* center_fft_image(img, centered), set_size and upload_luminance
CenterAndUpload ==
    /\ pc = "center"
    /\ \E g \in [OutsideCells(dec.width, dec.height) -> GarbageFloats] :
          texture' = [kind |-> "lum", size |-> <<dec.width, dec.height>>,
                      px |-> Centered(img, dec.width, dec.height, g)]
    /\ log' = log \o <<"center", "upload">>
    /\ pc' = "end_iter"
    /\ UNCHANGED <<numFiles, f, file, dataOK, dec, img, lum, cplx, fy, fx, rowsDone,
                   colsDone, colReadRaw, gmin, gmax, divZero>>
    /\ UNCHANGED cvars

\* the loop body ends: its locals go, f++
EndIteration ==
    /\ pc = "end_iter"
    /\ LocalsFresh
    /\ f' = f + 1
    /\ pc' = "loop"
    /\ UNCHANGED <<numFiles, texture>>
    /\ UNCHANGED cvars

(***************************************************************************)
(* Specifications                                                          *)
(***************************************************************************)
DropOff ==
    /\ pc = "off"
    /\ numFiles = 0
    /\ f = 0
    /\ file = NoFile
    /\ dataOK = FALSE
    /\ dec = NoImage
    /\ img = EmptyBuf
    /\ lum = EmptyBuf
    /\ cplx = EmptyBuf
    /\ fy = 0
    /\ fx = 0
    /\ rowsDone = {}
    /\ colsDone = {}
    /\ colReadRaw = FALSE
    /\ gmin = F(0)
    /\ gmax = F(0)
    /\ divZero = FALSE
    /\ texture = NoTexture
    /\ log = <<>>

Init == InitDropVars /\ CenterOff

Next ==
    \/ OnDrop
    \/ BeginFile
    \/ EndDrop
    \/ ReadFile
    \/ ReadFileFails
    \/ DispatchPng
    \/ DispatchDds
    \/ DispatchOther
    \/ PngDecode
    \/ PngDecodeFails
    \/ PngDecodeFaults
    \/ PngLuminance
    \/ PngLuminanceFaults
    \/ MeanCenter
    \/ FFTEnter
    \/ FFTRow
    \/ FFTRowsEnd
    \/ FFTCol
    \/ FFTColsEnd
    \/ MinMax
    \/ Convert
    \/ Shift
    \/ CenterAndUpload
    \/ EndIteration

Spec == Init /\ [][Next]_vars

InitCenter == InitCenterVars /\ DropOff

NextCenter ==
    \/ CenterCell
    \/ CenterCellOutside
    \/ CenterCellFault
    \/ CenterAgain
    \/ CenterDone

SpecCenter == InitCenter /\ [][NextCenter]_vars


(***************************************************************************)
(* Properties of center_fft_image (under SpecCenter)                       *)
(***************************************************************************)
\* the flat index of (row height/2, col width/2)
CenterIndex == Flat(ch \div 2, cw \div 2, cw)

\* a call of center_fft_image has returned
CallReturned == cpc \in {"run", "done"} /\ ci = ch

\* C1: once center_fft_image has written out(height/2, width/2), that cell
\* holds the value `in` has at (0, 0), and (0, 0) is the cell it was read from
C1_OriginAtCenter ==
    (cpc # "off" /\ CenterIndex \in DOMAIN dst) =>
        /\ dst[CenterIndex] = src[0]
        /\ srcmap[CenterIndex] = <<0, 0>>

\* C1 witness: the centre cell of an odd x even, non-square buffer is written
C1_Witness ==
    /\ cw = 3 /\ ch = 4 /\ cpass = 1
    /\ CenterIndex \in DOMAIN dst
    /\ dst[CenterIndex] = orig[0]

\* C2: when a call has returned, every cell of `in` was the source of exactly
\* one cell of `out`
C2_ShiftIsBijection ==
    CallReturned =>
        \A k \in Cells(cw, ch) :
            Cardinality({o \in DOMAIN srcmap : srcmap[o] = <<k \div cw, k % cw>>}) = 1

\* C3: every read of `in` uses a row in [0, height) and a column in
\* [0, width), that is a flat index inside the storage
C3_ReadsInBounds ==
    \A o \in DOMAIN srcmap :
        /\ srcmap[o][1] \in 0 .. (ch - 1)
        /\ srcmap[o][2] \in 0 .. (cw - 1)
        /\ InStorage(Flat(srcmap[o][1], srcmap[o][2], cw), cw, ch)

\* C8: center_fft_image applied twice gives back the buffer it started from
C8_ShiftTwiceIsIdentity == cpc = "done" => dst = orig

(***************************************************************************)
(* Properties of on_drop (under Spec)                                      *)
(***************************************************************************)
Range(s) == { s[k] : k \in DOMAIN s }

\* the renderer was handed the magnitude buffer of the running iteration,
\* computed from a file that was read and decoded
Uploaded == pc = "end_iter" /\ texture.kind = "lum" /\ dataOK /\ file.valid

\* ... and that had 3 or 4 channels
UploadedRGB == Uploaded /\ dec.nBytes \in {3, 4}

\* C4: with a flat spectrum nothing is divided by zero and the buffer handed
\* to the renderer holds 0 in every cell
C4_FlatSpectrumGivesZeros ==
    (UploadedRGB /\ gmax = gmin) =>
        /\ ~divZero
        /\ \A k \in DOMAIN texture.px : texture.px[k] = F(0)

\* C5: with a spectrum that is not flat every sample handed to the renderer
\* lies in [0, 1], and 0 and 1 are both attained
C5_OutputInUnitRange ==
    (UploadedRGB /\ FLt(gmin, gmax)) =>
        /\ \A k \in DOMAIN texture.px :
              FLe(F(0), texture.px[k]) /\ FLe(texture.px[k], F(1))
        /\ \E k \in DOMAIN texture.px : texture.px[k] = F(0)
        /\ \E k \in DOMAIN texture.px : texture.px[k] = F(1)

\* C6: a decoded buffer whose channel count is not 3 or 4 is rejected: no
\* pixel of it is read, mean-centering and compute_fft_2d do not run, and no
\* buffer is handed to the renderer
C6_BadChannelCountRejected ==
    (dataOK /\ file.valid /\ dec # NoImage /\ dec.nBytes \notin {3, 4}) =>
        /\ lum = EmptyBuf
        /\ Range(log) \cap {"mean", "fft", "upload"} = {}
        /\ texture.kind # "lum"

\* C7: in one iteration of on_drop no later stage runs after a failure
C7_FailureAbortsLaterStages ==
    \A a, b \in DOMAIN log :
        (a < b /\ log[a] \in Failures) => log[b] \notin LaterStages

\* the luminance buffer [[1, 0], [0, 0]]
BrightPixel ==
    /\ dec.width = 2 /\ dec.height = 2
    /\ lum = [k \in Cells(2, 2) |-> IF k = 0 THEN F(1) ELSE F(0)]

\* C9 as stated: for [[1, 0], [0, 0]] the cell at (1, 1) of the buffer handed
\* to the renderer holds the maximum
C9_MaxAtCenter ==
    (UploadedRGB /\ BrightPixel) =>
        \A k \in DOMAIN texture.px : FLe(texture.px[k], texture.px[Flat(1, 1, 2)])

\* C9 amended: for [[1, 0], [0, 0]] the cell at (1, 1) holds the minimum, 0
\* (the zero-frequency cell, emptied by mean-centering), and the three other
\* cells hold the maximum
C9_MinAtCenter ==
    (UploadedRGB /\ BrightPixel) =>
        /\ texture.px[Flat(1, 1, 2)] = F(0)
        /\ \A k \in 0 .. 2 : texture.px[k] = F(ShiftScale)
        /\ \A k \in 0 .. 2 : FLt(texture.px[Flat(1, 1, 2)], texture.px[k])

\* C9 witness: the buffer for [[1, 0], [0, 0]] was handed to the renderer
C9_Witness == UploadedRGB /\ BrightPixel /\ texture.size = <<2, 2>>

\* C10: once the column loop of compute_fft_2d is reached, every row has been
\* transformed and written back, and no column gather has read a cell of an
\* untransformed row
C10_RowsBeforeColumns ==
    (pc = "fft_cols" \/ colsDone # {}) =>
        /\ rowsDone = 0 .. (dec.height - 1)
        /\ ~colReadRaw

\* C10 witness: the second column of a 2 x 2 buffer is about to be gathered
C10_Witness ==
    /\ pc = "fft_cols" /\ fx = 1
    /\ dec.width = 2 /\ dec.height = 2
    /\ colsDone = {0}

====
